---- MODULE Spec2Model ----
(***************************************************************************)
(* Model of tools/pdf_extractor/pdf_extractor.py: the page/spread planner  *)
(* get_page_groupings, the per-unit image extraction                       *)
(* extract_images_from_pages, the orchestrator extract_pages_from_pdf and  *)
(* the CLI entry point main.                                               *)
(*                                                                         *)
(* Strings are TLA+ strings built with \o and ToString, as the f-strings   *)
(* of the source build them.  The document is an input: its page count is  *)
(* fixed in Init, the number of embedded raster images of a page and the   *)
(* outcome of render_drawings on it are drawn when the page is processed   *)
(* and recorded in doc_pages.                                              *)
(***************************************************************************)
EXTENDS Integers, Sequences, FiniteSets, TLC

VARIABLES
    pc,                     \* position of the run
    pdf_state,              \* "missing" | "unreadable" | "corrupt" | "ok": the file at pdf_path
    total_pages,            \* len(doc) of the file at pdf_path
    req_start,              \* --start_page as requested
    req_end,                \* --end_page as requested
    spread_mode,            \* --spread_mode
    quiet,                  \* --quiet
    fs,                     \* paths that exist under output_dir (directories and files)
    doc_open,               \* the pymupdf document handle is open
    start_page,             \* local start_page of extract_pages_from_pdf
    end_page,               \* local end_page of extract_pages_from_pdf
    page_groupings,         \* local page_groupings
    grp,                    \* 1-based position of the for loop over page_groupings
    pos,                    \* 1-based position of the for loop over page_indices
    page_text,              \* local page_text of the current unit
    images,                 \* local images of extract_images_from_pages
    image_index,            \* local image_index of extract_images_from_pages
    pages,                  \* local pages
    extracted_page_numbers, \* local extracted_page_numbers
    doc_pages,              \* content of the physical pages whose images were extracted
    result,                 \* the PDFExtract returned, or NoResult
    err,                    \* the exception that ended the run, or "none"
    exit_code,              \* process exit status, or NoExit
    current,                \* local current of get_page_groupings (planner walk)
    groupings,              \* local groupings of get_page_groupings (planner walk)
    stitch_pages,           \* sizes of the pages doc[idx] given to stitch_page_images
    pixmaps,                \* local pixmaps of stitch_page_images
    stitched,               \* local stitched of stitch_page_images, then its result
    x_offset,               \* local x_offset of stitch_page_images
    stitch_k                \* 1-based position of the loop `for pix in pixmaps`

vars == <<pc, pdf_state, total_pages, req_start, req_end, spread_mode, quiet, fs,
          doc_open, start_page, end_page, page_groupings, grp, pos, page_text,
          images, image_index, pages, extracted_page_numbers, doc_pages,
          result, err, exit_code, current, groupings, stitch_pages, pixmaps,
          stitched, x_offset, stitch_k>>

(***************************************************************************)
(* Bounds of the model.                                                    *)
(***************************************************************************)
MaxPages == 3        \* documents have 1..MaxPages pages
MaxRaster == 1       \* embedded raster images on a physical page that has some
MaxVector == 1       \* vector regions render_drawings returns on a page that has some
MaxPlanPage == 6     \* page numbers given to get_page_groupings called alone

NoResult == [none |-> TRUE]
NoExit == 0 - 1      \* exit_code while the process runs

(***************************************************************************)
(* Helpers on sequences.                                                   *)
(***************************************************************************)
RECURSIVE Flatten(_)
Flatten(ss) == IF ss = <<>> THEN <<>> ELSE Head(ss) \o Flatten(Tail(ss))

\* list(range(a, b + 1))
Range(a, b) == [i \in 1..(IF b >= a THEN b - a + 1 ELSE 0) |-> a + i - 1]

Min(a, b) == IF a <= b THEN a ELSE b

\* os.path.join of two relative components
path_join(a, b) == a \o "/" \o b

\* '_'.join(str(p) for p in page_group)
RECURSIVE join_underscore(_)
join_underscore(page_group) ==
    IF Len(page_group) = 1 THEN ToString(Head(page_group))
    ELSE ToString(Head(page_group)) \o "_" \o join_underscore(Tail(page_group))

(***************************************************************************)
(* get_page_groupings.                                                     *)
(***************************************************************************)
\* Variant of spread_unit without the `current + 1 <= end_page` test.
spread_unit_pair_past_end(cur, endp) ==
    IF cur = 1 THEN <<1>>
    ELSE IF cur % 2 = 0 THEN <<cur, cur + 1>> ELSE <<cur>>

\* Variant of spread_unit pairing an odd page with the even page after it.
spread_unit_odd_pairs(cur, endp) ==
    IF cur = 1 THEN <<1>>
    ELSE IF cur % 2 = 1
         THEN IF cur + 1 <= endp THEN <<cur, cur + 1>> ELSE <<cur>>
         ELSE <<cur>>

\* Variant of spread_unit testing `current <= end_page` before pairing.
spread_unit_pair_at_end(cur, endp) ==
    IF cur = 1 THEN <<1>>
    ELSE IF cur % 2 = 0
         THEN IF cur <= endp THEN <<cur, cur + 1>> ELSE <<cur>>
         ELSE <<cur>>

\* One iteration of the while loop: the unit appended at cursor `cur`.
spread_unit(cur, endp) ==
    IF cur = 1 THEN <<1>>
    ELSE IF cur % 2 = 0
         THEN IF cur + 1 <= endp THEN <<cur, cur + 1>> ELSE <<cur>>
         ELSE <<cur>>

RECURSIVE spread_walk(_, _, _)
spread_walk(cur, endp, acc) ==
    IF cur <= endp
    THEN LET u == spread_unit(cur, endp)
         IN spread_walk(cur + Len(u), endp, Append(acc, u))
    ELSE acc

\* Variant of normal_groupings with range(start_page, end_page).
normal_groupings_exclusive(startp, endp) ==
    [i \in 1..(IF endp > startp THEN endp - startp ELSE 0) |-> <<startp + i - 1>>]

normal_groupings(startp, endp) ==
    [i \in 1..(IF endp >= startp THEN endp - startp + 1 ELSE 0) |-> <<startp + i - 1>>]

get_page_groupings(startp, endp, spread) ==
    IF ~spread THEN normal_groupings(startp, endp)
    ELSE spread_walk(startp, endp, <<>>)

(***************************************************************************)
(* Names and paths (extract_pages_from_pdf, extract_images_from_pages).    *)
(***************************************************************************)
output_dir == "out"
pages_dir == path_join(output_dir, "pages")
images_dir == path_join(output_dir, "images")
results_path == path_join(output_dir, "pdf_extract.json")

\* page_id of a unit: f"p{page_group[0]}" or f"p{'_'.join(...)}"
page_id_of(page_group) ==
    IF Len(page_group) = 1 THEN "p" \o ToString(page_group[1])
    ELSE "p" \o join_underscore(page_group)

\* Variant of page_number_of taking the last page of the unit.
page_number_of_last(page_group) == page_group[Len(page_group)]

\* page_number of a unit
page_number_of(page_group) == page_group[1]

\* page_image_filename of a unit
page_image_filename_of(page_group) ==
    IF Len(page_group) = 1 THEN "page_" \o ToString(page_group[1]) \o ".png"
    ELSE "page_" \o join_underscore(page_group) \o ".png"

\* page_indices = [p - 1 for p in page_group]
page_indices_of(page_group) == [i \in 1..Len(page_group) |-> page_group[i] - 1]

\* doc[idx].get_text(): the text layer of a physical page
get_text(idx) == "text" \o ToString(idx + 1)

RECURSIVE concatenate_page_text(_)
concatenate_page_text(page_indices) ==
    IF page_indices = <<>> THEN ""
    ELSE IF Len(page_indices) = 1 THEN get_text(page_indices[1])
    ELSE get_text(page_indices[1]) \o "\n\n" \o concatenate_page_text(Tail(page_indices))

\* Variant of img_id_of that leaves the unit's page_id out of the id.
img_id_of_no_page(page_id, letter, index) ==
    "img_" \o letter \o ToString(index)

\* img_id = f"img_{page_id}_r{image_index}" / f"img_{page_id}_v{image_index}"
img_id_of(page_id, letter, index) ==
    "img_" \o page_id \o "_" \o letter \o ToString(index)

\* The Image record appended for one raster ("r") or vector ("v") image.
make_image(page_id, letter, index) ==
    LET img_id == img_id_of(page_id, letter, index)
    IN [image_id   |-> img_id,
        page_id    |-> page_id,
        index      |-> index,
        image_path |-> path_join("images", img_id \o ".png"),
        chart_path |-> path_join("images", img_id \o "_chart.png"),
        image_type |-> IF letter = "r" THEN "raster" ELSE "vector"]

\* The two files written for an image, in the order they are written.
image_writes(img) ==
    << path_join(images_dir, img.image_id \o ".png"),
       path_join(images_dir, img.image_id \o "_chart.png") >>

\* try: vector_images = render_drawings(...); if not quiet: print(...)
\* except Exception: print(..., file=sys.stderr); vector_images = []
\* printed: the print inside the try could write to stdout (it is not run
\* when quiet); reported: the print of the except clause could write to stderr.
\* raised: whether an exception leaves the statement (the OSError of the
\* print inside the except clause);
\* n: len(vector_images) after the try statement: 0 when render_drawings or
\* the print after it raised.
guarded_render_drawings(vres, printed, reported) ==
    LET caught == vres.failed \/ ~printed
    IN [raised |-> caught /\ ~reported, n |-> IF caught THEN 0 ELSE vres.n]

\* Variant of page_images with image_index reset at every physical page.
page_images_restart(page_id, idx0, nr, nv) ==
    [k \in 1..(nr + nv) |->
        IF k <= nr THEN make_image(page_id, "r", k - 1)
        ELSE make_image(page_id, "v", k - 1)]

\* The images one iteration of `for page_idx in page_indices` appends, given
\* nr embedded raster images and nv rendered vector images, starting at index idx0.
page_images(page_id, idx0, nr, nv) ==
    [k \in 1..(nr + nv) |->
        IF k <= nr THEN make_image(page_id, "r", idx0 + k - 1)
        ELSE make_image(page_id, "v", idx0 + k - 1)]

\* The first n elements of a sequence, as a set.
Written(paths, n) == {paths[i] : i \in 1..n}

\* Variant of resolve_end_page that does not treat 0 as "end of document".
resolve_end_page_no_sentinel(endp, total) == Min(endp, total)

\* Variant of resolve_end_page without min(end_page, total_pages).
resolve_end_page_no_clamp(endp, total) == IF endp > 0 THEN endp ELSE total

\* start_page and end_page after the sentinel resolution.
resolve_end_page(endp, total) == IF endp > 0 THEN Min(endp, total) ELSE total
resolve_start_page(startp) == IF startp = 0 THEN 1 ELSE startp

\* Variant of validate_range without the `end_page < start_page` test.
validate_range_no_end_check(startp, endp, total) ==
    IF startp < 1 \/ startp > total THEN "start_out_of_range" ELSE "ok"

\* Variant of validate_range with `and` for `or` in the start_page test.
validate_range_and(startp, endp, total) ==
    IF startp < 1 /\ startp > total THEN "start_out_of_range"
    ELSE IF endp < startp THEN "end_before_start"
    ELSE "ok"

\* The range validation: "ok", or the ValueError raised.
validate_range(startp, endp, total) ==
    IF startp < 1 \/ startp > total THEN "start_out_of_range"
    ELSE IF endp < startp THEN "end_before_start"
    ELSE "ok"

(***************************************************************************)
(* The run: main and extract_pages_from_pdf.                               *)
(***************************************************************************)
Requests == (0 - 1)..(MaxPages + 1)
\* What render_drawings does on a page: it raises, or returns n vector images,
\* none or MaxVector of them.
VectorOutcomes ==
    {[failed |-> TRUE, n |-> 0]} \cup {[failed |-> FALSE, n |-> k] : k \in {0, MaxVector}}

Idle ==
    /\ fs = {}
    /\ doc_open = FALSE
    /\ page_groupings = <<>>
    /\ grp = 0
    /\ pos = 0
    /\ page_text = ""
    /\ images = <<>>
    /\ image_index = 0
    /\ pages = <<>>
    /\ extracted_page_numbers = <<>>
    /\ doc_pages = <<>>
    /\ result = NoResult
    /\ err = "none"
    /\ exit_code = NoExit
    /\ current = 0
    /\ groupings = <<>>

NoCanvas == [none |-> TRUE]

\* stitch_page_images is not running.
StitchIdle ==
    /\ stitch_pages = <<>>
    /\ pixmaps = <<>>
    /\ stitched = NoCanvas
    /\ x_offset = 0
    /\ stitch_k = 0

Init ==
    /\ pc = "main"
    /\ pdf_state \in {"missing", "unreadable", "corrupt", "ok"}
    /\ total_pages \in (IF pdf_state = "ok" THEN 1..MaxPages ELSE {0})
    /\ req_start \in Requests
    /\ req_end \in Requests
    /\ spread_mode \in BOOLEAN
    /\ quiet \in BOOLEAN
    /\ start_page = req_start
    /\ end_page = req_end
    /\ Idle
    /\ StitchIdle

inputs == <<pdf_state, total_pages, req_start, req_end, spread_mode, quiet>>
stitch_locals == <<stitch_pages, pixmaps, stitched, x_offset, stitch_k>>
plan_locals == <<current, groupings>>
unit_locals == <<pos, page_text, images, image_index>>

\* The exception leaves extract_pages_from_pdf for the except clause of main.
Raise(e) ==
    /\ pc' = "error"
    /\ err' = e

\* main: if not os.path.isfile(args.pdf_path): print(..., file=sys.stderr);
\* sys.exit(1). When stderr cannot be written the print raises outside the
\* try statement and the interpreter ends with status 120.
MainCheckFile ==
    /\ pc = "main"
    /\ IF pdf_state = "missing"
       THEN /\ pc' = "exit"
            /\ exit_code' \in {1, 120}
       ELSE /\ pc' = "makedirs"
            /\ exit_code' = exit_code
    /\ UNCHANGED <<inputs, fs, doc_open, start_page, end_page, page_groupings, grp,
                   unit_locals, pages, extracted_page_numbers, doc_pages, result,
                   err, plan_locals, stitch_locals>>

\* The directories extract_pages_from_pdf creates, in the order of its calls.
made_dirs == <<output_dir, pages_dir, images_dir>>

\* os.makedirs(output_dir), os.makedirs(pages_dir), os.makedirs(images_dir):
\* the first `made` calls succeed; a call that fails raises OSError and the
\* directories of the calls before it stay.
MakeDirs ==
    /\ pc = "makedirs"
    /\ \E made \in 0..Len(made_dirs) :
          /\ fs' = fs \cup Written(made_dirs, made)
          /\ IF made = Len(made_dirs)
             THEN /\ pc' = "open"
                  /\ err' = err
             ELSE Raise("IOError")
    /\ UNCHANGED <<inputs, doc_open, start_page, end_page, page_groupings, grp,
                   unit_locals, pages, extracted_page_numbers, doc_pages, result,
                   exit_code, plan_locals, stitch_locals>>

\* open(pdf_path).read(); doc = pymupdf.open(stream=pdf_bytes, filetype="pdf"):
\* open() raises OSError on a file the process may not read, pymupdf.open
\* raises on bytes that are no PDF.
OpenDoc ==
    /\ pc = "open"
    /\ IF pdf_state = "ok"
       THEN /\ doc_open' = TRUE
            /\ pc' = "validate"
            /\ err' = err
       ELSE /\ doc_open' = doc_open
            /\ Raise(IF pdf_state = "unreadable" THEN "IOError" ELSE "DocumentOpenError")
    /\ UNCHANGED <<inputs, fs, start_page, end_page, page_groupings, grp,
                   unit_locals, pages, extracted_page_numbers, doc_pages, result,
                   exit_code, plan_locals, stitch_locals>>

\* Determine page range; validate page range.
Validate ==
    /\ pc = "validate"
    /\ LET e == resolve_end_page(end_page, total_pages)
           s == resolve_start_page(start_page)
       IN /\ end_page' = e
          /\ start_page' = s
          /\ IF validate_range(s, e, total_pages) = "ok"
             THEN /\ pc' = "plan"
                  /\ err' = err
             ELSE Raise("ValueError")
    /\ UNCHANGED <<inputs, fs, doc_open, page_groupings, grp, unit_locals, pages,
                   extracted_page_numbers, doc_pages, result, exit_code, plan_locals, stitch_locals>>

\* page_groupings = get_page_groupings(...); pages = []; extracted_page_numbers = []
Plan ==
    /\ pc = "plan"
    /\ page_groupings' = get_page_groupings(start_page, end_page, spread_mode)
    /\ pages' = <<>>
    /\ extracted_page_numbers' = <<>>
    /\ grp' = 1
    /\ pc' = "loop"
    /\ UNCHANGED <<inputs, fs, doc_open, start_page, end_page, unit_locals,
                   doc_pages, result, err, exit_code, plan_locals, stitch_locals>>

page_group == page_groupings[grp]

\* Loop body up to write_file(page_image_path, page_image_bytes).
RenderUnit ==
    /\ pc = "loop"
    /\ grp <= Len(page_groupings)
    /\ extracted_page_numbers' = extracted_page_numbers \o page_group
    /\ \E written \in BOOLEAN :
          IF written
          THEN /\ fs' = fs \cup {path_join(pages_dir, page_image_filename_of(page_group))}
               /\ pc' = "text"
               /\ err' = err
          ELSE /\ fs' = fs
               /\ Raise("IOError")
    /\ UNCHANGED <<inputs, doc_open, start_page, end_page, page_groupings, grp,
                   unit_locals, pages, doc_pages, result, exit_code, plan_locals, stitch_locals>>

\* page_text = concatenate_page_text(doc, page_indices)
TextUnit ==
    /\ pc = "text"
    /\ page_text' = concatenate_page_text(page_indices_of(page_group))
    /\ pc' = "call_images"
    /\ UNCHANGED <<inputs, fs, doc_open, start_page, end_page, page_groupings, grp,
                   pos, images, image_index, pages, extracted_page_numbers,
                   doc_pages, result, err, exit_code, plan_locals, stitch_locals>>

\* extract_images_from_pages is entered: images = []; image_index = 0
BeginImages ==
    /\ pc = "call_images"
    /\ images' = <<>>
    /\ image_index' = 0
    /\ pos' = 1
    /\ pc' = "images"
    /\ UNCHANGED <<inputs, fs, doc_open, start_page, end_page, page_groupings, grp,
                   page_text, pages, extracted_page_numbers, doc_pages, result,
                   err, exit_code, plan_locals, stitch_locals>>

\* Every file the images of a list are written to, in writing order.
writes_of(imgs) == Flatten([k \in 1..Len(imgs) |-> image_writes(imgs[k])])

\* One iteration of `for page_idx in page_indices`: the raster images of the
\* page, then render_drawings under the try statement, then the vector images.
\* The page holds nr raster images and render_drawings ends as vres. Each
\* image is appended to images, and image_index advanced, once its two files
\* are written, so an exception leaves the images completed before it. A
\* page holds no raster image or MaxRaster of them.
ExtractPage ==
    /\ pc = "images"
    /\ pos <= Len(page_group)
    /\ \E nr \in {0, MaxRaster}, vres \in VectorOutcomes :
       \E printed \in (IF quiet \/ vres.failed THEN {TRUE} ELSE BOOLEAN) :
       \E reported \in (IF vres.failed \/ ~printed THEN BOOLEAN ELSE {TRUE}) :
          LET page_id == page_id_of(page_group)
              g == guarded_render_drawings(vres, printed, reported)
              new == page_images(page_id, image_index, nr, g.n)
              rasters == SubSeq(new, 1, nr)
              writes == writes_of(IF g.raised THEN rasters ELSE new)
              read == doc_pages @@ (page_group[pos] :> [nraster |-> nr, vres |-> vres])
          IN \/ IF g.raised
                THEN /\ fs' = fs \cup Written(writes, Len(writes))
                     /\ images' = images \o rasters
                     /\ image_index' = image_index + nr
                     /\ Raise("IOError")
                     /\ doc_pages' = read
                     /\ pos' = pos
                ELSE /\ fs' = fs \cup Written(writes, Len(writes))
                     /\ images' = images \o new
                     /\ image_index' = image_index + Len(new)
                     /\ pos' = pos + 1
                     /\ doc_pages' = read
                     /\ UNCHANGED <<pc, err>>
             \* write_file raises at the k-th file of the page
             \/ \E k \in 1..Len(writes) :
                     LET done == (k - 1) \div 2
                     IN /\ fs' = fs \cup Written(writes, k - 1)
                        /\ images' = images \o SubSeq(new, 1, done)
                        /\ image_index' = image_index + done
                        /\ Raise("IOError")
                        /\ UNCHANGED <<pos, doc_pages>>
    /\ UNCHANGED <<inputs, doc_open, start_page, end_page, page_groupings, grp,
                   page_text, pages, extracted_page_numbers, result, exit_code,
                   plan_locals, stitch_locals>>

\* Variant of FinishUnit with pages.insert(0, Page(...)).
FinishUnit_prepend ==
    /\ pc = "images"
    /\ pos > Len(page_group)
    /\ pages' = <<[page_id         |-> page_id_of(page_group),
                   page_number     |-> page_number_of(page_group),
                   page_image_path |-> path_join("pages", page_image_filename_of(page_group)),
                   text            |-> page_text,
                   images          |-> images]>> \o pages
    /\ grp' = grp + 1
    /\ pc' = "loop"
    /\ UNCHANGED <<inputs, fs, doc_open, start_page, end_page, page_groupings,
                   unit_locals, extracted_page_numbers, doc_pages, result, err,
                   exit_code, plan_locals, stitch_locals>>

\* return images; pages.append(Page(...)); next unit
FinishUnit ==
    /\ pc = "images"
    /\ pos > Len(page_group)
    /\ pages' = Append(pages,
                  [page_id         |-> page_id_of(page_group),
                   page_number     |-> page_number_of(page_group),
                   page_image_path |-> path_join("pages", page_image_filename_of(page_group)),
                   text            |-> page_text,
                   images          |-> images])
    /\ grp' = grp + 1
    /\ pc' = "loop"
    /\ UNCHANGED <<inputs, fs, doc_open, start_page, end_page, page_groupings,
                   unit_locals, extracted_page_numbers, doc_pages, result, err,
                   exit_code, plan_locals, stitch_locals>>

\* Metadata(...); return PDFExtract(pdf_metadata=pdf_metadata, pages=pages)
BuildResult ==
    /\ pc = "loop"
    /\ grp > Len(page_groupings)
    /\ result' = [pdf_metadata |->
                     [filename        |-> "document.pdf",
                      total_pages     |-> total_pages,
                      extracted_pages |-> extracted_page_numbers,
                      start_page      |-> start_page,
                      end_page        |-> end_page,
                      spread_mode     |-> spread_mode],
                  pages |-> pages]
    /\ pc' = "save"
    /\ UNCHANGED <<inputs, fs, doc_open, start_page, end_page, page_groupings, grp,
                   unit_locals, pages, extracted_page_numbers, doc_pages, err,
                   exit_code, plan_locals, stitch_locals>>

\* What can happen to save_to_file and to the prints after it: open() fails,
\* f.write fails after open() created the file, the first print fails to
\* encode its check mark for stdout, main returns and the interpreter cannot
\* flush the buffered prints to stdout, or everything succeeds.
SaveOutcomes == {"open_fails", "write_fails", "print_fails", "flush_fails", "done"}

\* result.save_to_file(results_path); if not args.quiet: print(...); main
\* returns
SaveJson ==
    /\ pc = "save"
    /\ \E outcome \in SaveOutcomes :
          /\ outcome \in {"print_fails", "flush_fails"} => ~quiet
          /\ fs' = IF outcome = "open_fails" THEN fs ELSE fs \cup {results_path}
          /\ IF outcome \in {"done", "flush_fails"}
             THEN /\ pc' = "exit"
                  /\ exit_code' = IF outcome = "done" THEN 0 ELSE 120
                  /\ err' = err
             ELSE /\ Raise(IF outcome = "print_fails" THEN "ValueError" ELSE "IOError")
                  /\ exit_code' = exit_code
    /\ UNCHANGED <<inputs, doc_open, start_page, end_page, page_groupings, grp,
                   unit_locals, pages, extracted_page_numbers, doc_pages, result,
                   plan_locals, stitch_locals>>

\* except Exception as e: print(..., file=sys.stderr); ...; sys.exit(1).
\* The status is 120 when the print to stderr raises inside the except
\* clause, or when the interpreter cannot flush stdout at exit.
MainExcept ==
    /\ pc = "error"
    /\ pc' = "exit"
    /\ exit_code' \in {1, 120}
    /\ UNCHANGED <<inputs, fs, doc_open, start_page, end_page, page_groupings, grp,
                   unit_locals, pages, extracted_page_numbers, doc_pages, result,
                   err, plan_locals, stitch_locals>>

Next ==
    \/ MainCheckFile
    \/ MakeDirs
    \/ OpenDoc
    \/ Validate
    \/ Plan
    \/ RenderUnit
    \/ TextUnit
    \/ BeginImages
    \/ ExtractPage
    \/ FinishUnit
    \/ BuildResult
    \/ SaveJson
    \/ MainExcept

Spec == Init /\ [][Next]_vars

(***************************************************************************)
(* get_page_groupings called on its own, one loop iteration per step.      *)
(***************************************************************************)
PlanInit ==
    /\ pc = "plan_call"
    /\ pdf_state = "ok"
    /\ total_pages = MaxPlanPage
    /\ start_page \in 1..MaxPlanPage
    /\ end_page \in 0..MaxPlanPage
    /\ spread_mode \in BOOLEAN
    /\ quiet = TRUE
    /\ req_start = start_page
    /\ req_end = end_page
    /\ Idle
    /\ StitchIdle

plan_frame == <<inputs, fs, doc_open, start_page, end_page, grp, unit_locals, pages,
                extracted_page_numbers, doc_pages, result, err, exit_code,
                stitch_locals>>

\* if not spread_mode: return [...]; groupings = []; current = start_page
PlanEnter ==
    /\ pc = "plan_call"
    /\ IF ~spread_mode
       THEN /\ page_groupings' = normal_groupings(start_page, end_page)
            /\ pc' = "plan_done"
            /\ UNCHANGED plan_locals
       ELSE /\ groupings' = <<>>
            /\ current' = start_page
            /\ pc' = "plan_loop"
            /\ UNCHANGED page_groupings
    /\ UNCHANGED plan_frame

\* while current <= end_page: one iteration
PlanLoop ==
    /\ pc = "plan_loop"
    /\ current <= end_page
    /\ LET u == spread_unit(current, end_page)
       IN /\ groupings' = Append(groupings, u)
          /\ current' = current + Len(u)
    /\ UNCHANGED <<pc, page_groupings, plan_frame>>

\* return groupings
PlanReturn ==
    /\ pc = "plan_loop"
    /\ current > end_page
    /\ page_groupings' = groupings
    /\ pc' = "plan_done"
    /\ UNCHANGED <<plan_locals, plan_frame>>

PlanNext ==
    \/ PlanEnter
    \/ PlanLoop
    \/ PlanReturn

SpecPlan == PlanInit /\ [][PlanNext]_vars

\* The interpreter goes on running the function until it returns.
SpecPlanFair == PlanInit /\ [][PlanNext]_vars /\ WF_vars(PlanNext)

(***************************************************************************)
(* stitch_page_images called on its own, one loop iteration per step.      *)
(* A pixmap is its size; the stitched picture is the size of its canvas    *)
(* and the rectangles the member pixmaps were copied to.                   *)
(***************************************************************************)
FITZ_ZOOM == 2
MaxStitch == 2       \* pages of a unit given to stitch_page_images
MaxDim == 3          \* page width and height, in points

PageSizes == [width : 1..MaxDim, height : 1..MaxDim]

\* doc[idx].get_pixmap(matrix=FITZ_MAT)
get_pixmap(page) ==
    [width |-> FITZ_ZOOM * page.width, height |-> FITZ_ZOOM * page.height]

RECURSIVE sum_widths(_)
sum_widths(pixs) == IF pixs = <<>> THEN 0 ELSE Head(pixs).width + sum_widths(Tail(pixs))

RECURSIVE max_heights(_)
max_heights(pixs) ==
    IF Len(pixs) = 1 THEN Head(pixs).height
    ELSE LET m == max_heights(Tail(pixs))
         IN IF Head(pixs).height >= m THEN Head(pixs).height ELSE m

\* Variant of copy_rect with y_offset = max_height - pix.height // 2.
copy_rect_precedence(x, max_height, pix) ==
    LET y == max_height - (pix.height \div 2)
    IN [x0 |-> x, y0 |-> y, x1 |-> x + pix.width, y1 |-> y + pix.height]

\* IRect(x_offset, y_offset, x_offset + pix.width, y_offset + pix.height)
copy_rect(x, max_height, pix) ==
    LET y == (max_height - pix.height) \div 2
    IN [x0 |-> x, y0 |-> y, x1 |-> x + pix.width, y1 |-> y + pix.height]

\* The picture that is one pixmap, unchanged.
whole_pixmap(pix) ==
    [width  |-> pix.width,
     height |-> pix.height,
     copies |-> << [x0 |-> 0, y0 |-> 0, x1 |-> pix.width, y1 |-> pix.height] >>]

StitchInit ==
    /\ pc = "stitch_call"
    /\ pdf_state = "ok"
    /\ total_pages = MaxStitch
    /\ req_start = 1
    /\ req_end = MaxStitch
    /\ spread_mode = TRUE
    /\ quiet = TRUE
    /\ start_page = req_start
    /\ end_page = req_end
    /\ Idle
    /\ stitch_pages \in UNION {[1..n -> PageSizes] : n \in 1..MaxStitch}
    /\ pixmaps = <<>>
    /\ stitched = NoCanvas
    /\ x_offset = 0
    /\ stitch_k = 0

stitch_frame == <<inputs, fs, doc_open, start_page, end_page, page_groupings, grp,
                  unit_locals, pages, extracted_page_numbers, doc_pages, result, err,
                  exit_code, plan_locals, stitch_pages>>

\* if len(page_indices) == 1: return the pixmap of the page
StitchSingle ==
    /\ pc = "stitch_call"
    /\ Len(stitch_pages) = 1
    /\ stitched' = whole_pixmap(get_pixmap(stitch_pages[1]))
    /\ pc' = "stitch_done"
    /\ UNCHANGED <<pixmaps, x_offset, stitch_k, stitch_frame>>

\* pixmaps = [...]; total_width, max_height; stitched = Pixmap(...); x_offset = 0
StitchBegin ==
    /\ pc = "stitch_call"
    /\ Len(stitch_pages) # 1
    /\ LET pixs == [i \in 1..Len(stitch_pages) |-> get_pixmap(stitch_pages[i])]
       IN /\ pixmaps' = pixs
          /\ stitched' = [width  |-> sum_widths(pixs),
                          height |-> max_heights(pixs),
                          copies |-> <<>>]
    /\ x_offset' = 0
    /\ stitch_k' = 1
    /\ pc' = "stitch_loop"
    /\ UNCHANGED stitch_frame

\* for pix in pixmaps: one iteration
StitchCopy ==
    /\ pc = "stitch_loop"
    /\ stitch_k <= Len(pixmaps)
    /\ LET pix == pixmaps[stitch_k]
       IN /\ stitched' = [stitched EXCEPT
                            !.copies = Append(@, copy_rect(x_offset, stitched.height, pix))]
          /\ x_offset' = x_offset + pix.width
    /\ stitch_k' = stitch_k + 1
    /\ UNCHANGED <<pc, pixmaps, stitch_frame>>

\* result = stitched.tobytes(output="png"); return result
StitchReturn ==
    /\ pc = "stitch_loop"
    /\ stitch_k > Len(pixmaps)
    /\ pc' = "stitch_done"
    /\ UNCHANGED <<pixmaps, stitched, x_offset, stitch_k, stitch_frame>>

StitchNext ==
    \/ StitchSingle
    \/ StitchBegin
    \/ StitchCopy
    \/ StitchReturn

SpecStitch == StitchInit /\ [][StitchNext]_vars

(***************************************************************************)
(* Properties.                                                             *)
(***************************************************************************)
\* extract_pages_from_pdf has just returned its PDFExtract to main.
Returned == pc = "save" /\ result # NoResult
Planned == grp >= 1
\* The document was opened and the range validation has run.
Validated == doc_open /\ pc # "validate"

StrictlyAscending(seq) == \A i, j \in 1..Len(seq) : i < j => seq[i] < seq[j]

\* Every Image of a list of Page records, in order.
AllImages(ps) == Flatten([i \in 1..Len(ps) |-> ps[i].images])

\* C1: for every valid request and either spread_mode, the units planned by
\* get_page_groupings concatenate to [start_page .. end_page], strictly
\* ascending without gap or duplicate, and Metadata.extracted_pages of the
\* result is that same list.
C1_ExtractedPagesIsRange ==
    /\ (Planned /\ pc = "loop") =>
          /\ 1 <= start_page /\ start_page <= end_page /\ end_page <= total_pages
          /\ Flatten(page_groupings) = Range(start_page, end_page)
          /\ StrictlyAscending(Flatten(page_groupings))
    /\ Returned =>
          /\ result.pdf_metadata.extracted_pages = Range(start_page, end_page)
          /\ result.pdf_metadata.extracted_pages = Flatten(page_groupings)

C1_Witness ==
    /\ Returned
    /\ spread_mode
    /\ result.pdf_metadata.extracted_pages = <<1, 2, 3>>
    /\ page_groupings = << <<1>>, <<2, 3>> >>

IsUnit(u) == \E i \in 1..Len(page_groupings) : page_groupings[i] = u

\* C2: in spread mode, for 1 <= start <= end, the unit (p, p+1) is emitted
\* iff p is even, start <= p and p+1 <= end; every other page of the range
\* is a singleton; no unit has more than two pages; 1..5 gives
\* [(1,),(2,3),(4,5)], 2..3 gives [(2,3)], 3..4 gives [(3,),(4,)].
C2_SpreadPairing ==
    (pc = "plan_done" /\ spread_mode /\ 1 <= start_page /\ start_page <= end_page) =>
        /\ \A p \in 0..(MaxPlanPage + 1) :
              IsUnit(<<p, p + 1>>) <=>
                  (p % 2 = 0 /\ start_page <= p /\ p + 1 <= end_page)
        /\ \A p \in start_page..end_page :
              IsUnit(<<p>>) <=>
                  ~ \/ (p % 2 = 0 /\ p + 1 <= end_page)
                    \/ (p % 2 = 1 /\ p - 1 >= start_page /\ p # 1)
        /\ \A i \in 1..Len(page_groupings) : Len(page_groupings[i]) \in {1, 2}
        /\ (start_page = 1 /\ end_page = 5) =>
              page_groupings = << <<1>>, <<2, 3>>, <<4, 5>> >>
        /\ (start_page = 2 /\ end_page = 3) => page_groupings = << <<2, 3>> >>
        /\ (start_page = 3 /\ end_page = 4) => page_groupings = << <<3>>, <<4>> >>

C2_Witness ==
    /\ pc = "plan_done"
    /\ spread_mode
    /\ start_page = 1
    /\ end_page = 5
    /\ page_groupings = << <<1>>, <<2, 3>>, <<4, 5>> >>

\* C3: without spread mode, for every range start..end the planner returns
\* exactly the singletons (start,), (start+1,), ..., (end,) in ascending
\* order: end - start + 1 units.
C3_NormalSingletons ==
    (pc = "plan_done" /\ ~spread_mode /\ start_page <= end_page) =>
        /\ Len(page_groupings) = end_page - start_page + 1
        /\ \A i \in 1..Len(page_groupings) : page_groupings[i] = <<start_page + i - 1>>

C3_Witness ==
    /\ pc = "plan_done"
    /\ ~spread_mode
    /\ page_groupings = << <<1>>, <<2>>, <<3>>, <<4>>, <<5>> >>

\* C4: in the PDFExtract returned, no two Image records, of the same Page or
\* of different Pages, raster or vector, have the same image_id.
C4_ImageIdsUnique ==
    Returned =>
        LET all == AllImages(result.pages)
        IN \A i, j \in 1..Len(all) : i # j => all[i].image_id # all[j].image_id

C4_Witness ==
    /\ Returned
    /\ Len(result.pages) >= 2
    /\ \E i, j \in 1..Len(result.pages) :
          /\ i # j
          /\ Len(result.pages[i].images) >= 2
          /\ Len(result.pages[j].images) >= 2
          /\ \E a \in 1..Len(result.pages[i].images), b \in 1..Len(result.pages[j].images) :
                /\ result.pages[i].images[a].index = result.pages[j].images[b].index
                /\ result.pages[i].images[a].image_type = result.pages[j].images[b].image_type
    /\ \E q \in DOMAIN doc_pages : doc_pages[q].vres.failed

\* C5: for every Page of a completed extraction the index values of
\* Page.images, in list order, are 0, 1, ..., n-1: the counter restarts at 0
\* for each unit and is shared by raster and vector images and by both pages
\* of a spread.
C5_IndexContiguous ==
    Returned =>
        \A i \in 1..Len(result.pages) :
            \A k \in 1..Len(result.pages[i].images) :
                result.pages[i].images[k].index = k - 1

C5_Witness ==
    /\ Returned
    /\ \E i \in 1..Len(result.pages) :
          /\ Len(page_groupings[i]) = 2
          /\ Len(result.pages[i].images) = 4
          /\ \A q \in {page_groupings[i][1], page_groupings[i][2]} :
                doc_pages[q].nraster = 1 /\ doc_pages[q].vres.n = 1
    /\ \E j \in 1..Len(result.pages) :
          /\ Len(page_groupings[j]) = 1
          /\ Len(result.pages[j].images) >= 1

RasterBeforeVector(imgs) ==
    \A a, b \in 1..Len(imgs) :
        (imgs[a].image_type = "raster" /\ imgs[b].image_type = "vector")
            => imgs[a].index < imgs[b].index

\* C6 as stated: within every unit, two-page spreads included, every raster
\* image has a smaller index than every vector image of the unit.
C6_RasterBeforeVectorInUnit ==
    Returned => \A i \in 1..Len(result.pages) : RasterBeforeVector(result.pages[i].images)

\* Requested range that the claim C7 says is rejected.
end_page_zero_resolved == IF req_end = 0 THEN total_pages ELSE req_end
RejectedAsClaimed ==
    \/ req_start < 1
    \/ req_start > total_pages
    \/ end_page_zero_resolved < req_start

\* Requested range that is rejected: a negative start_page, a start_page past
\* the document, or a positive end_page below start_page.
Rejected ==
    \/ req_start < 0
    \/ req_start > total_pages
    \/ (0 < req_end /\ req_end < req_start)

\* extract_pages_from_pdf raised the ValueError of its range validation.
RangeError == err = "ValueError" /\ result = NoResult

\* C7 as stated: whenever start_page < 1, or start_page > total_pages, or
\* end_page (0 resolved to total_pages) < start_page, the run fails with a
\* range error and returns no PDFExtract.
C7_RangeErrorAsClaimed ==
    RejectedAsClaimed =>
        /\ result = NoResult
        /\ Validated => (pc \in {"error", "exit"} /\ RangeError)

\* C7 amended: the run fails with a range error and returns no PDFExtract
\* whenever start_page < 0, or start_page > total_pages, or end_page is
\* positive and below start_page; a start_page of 0 is resolved to 1 and an
\* end_page that is <= 0 or > total_pages to total_pages, and such requests
\* are not rejected.
C7_RangeError ==
    /\ Rejected =>
          /\ result = NoResult
          /\ Validated => (pc \in {"error", "exit"} /\ RangeError)
    /\ (~Rejected /\ Validated) => ~RangeError

C7_Witness ==
    /\ pc = "error"
    /\ err = "ValueError"
    /\ req_start = 3
    /\ req_end = 2
    /\ total_pages = 3

\* C8 as stated: when the range is invalid (start > total_pages, or end <
\* start, on the resolved values) the run aborts before any I/O: no
\* file or directory has been created under output_dir when the validation
\* error is raised.
C8_NoIOAsClaimed ==
    (Validated /\ (start_page > total_pages \/ end_page < start_page)) => fs = {}

\* C8 amended: when the range is invalid (start < 1, start > total_pages, or
\* end < start, on the resolved values) the run aborts before any file is
\* written: when the validation error is raised, and until the process
\* exits, output_dir holds the directories output_dir, pages and images that
\* extract_pages_from_pdf creates first, and no file.
C8_NoFileWritten ==
    (Validated /\ (start_page < 1 \/ start_page > total_pages \/ end_page < start_page)) =>
        /\ fs = {output_dir, pages_dir, images_dir}
        /\ results_path \notin fs

C8_Witness ==
    /\ pc = "error"
    /\ err = "ValueError"
    /\ req_start > total_pages
    /\ fs = {output_dir, pages_dir, images_dir}

\* C9: an end_page of 0 is resolved to total_pages and a start_page of 0 to 1
\* before planning; Metadata.start_page and Metadata.end_page hold the
\* resolved values and extracted_pages = [Metadata.start_page ..
\* Metadata.end_page].
C9_SentinelResolution ==
    /\ Validated =>
          /\ req_end = 0 => end_page = total_pages
          /\ req_start = 0 => start_page = 1
          /\ req_start # 0 => start_page = req_start
          /\ req_end \in 1..total_pages => end_page = req_end
    /\ Returned =>
          LET md == result.pdf_metadata
          IN /\ md.start_page = start_page
             /\ md.end_page = end_page
             /\ req_end = 0 => md.end_page = total_pages
             /\ req_start = 0 => md.start_page = 1
             /\ md.extracted_pages = Range(md.start_page, md.end_page)

C9_Witness ==
    /\ Returned
    /\ req_start = 0
    /\ req_end = 0
    /\ total_pages = 3
    /\ result.pdf_metadata.start_page = 1
    /\ result.pdf_metadata.end_page = 3

\* Number of images of a type in a list of Image records.
CountType(imgs, type) == Cardinality({k \in 1..Len(imgs) : imgs[k].image_type = type})

\* Raster images the pages of unit u hold, and vector images render_drawings
\* returned on them.
RECURSIVE RastersOf(_, _)
RastersOf(u, j) == IF j = 0 THEN 0 ELSE RastersOf(u, j - 1) + doc_pages[u[j]].nraster
RECURSIVE VectorsOf(_, _)
VectorsOf(u, j) ==
    IF j = 0 THEN 0
    ELSE VectorsOf(u, j - 1) + (IF doc_pages[u[j]].vres.failed THEN 0 ELSE doc_pages[u[j]].vres.n)

\* The run ended while extracting the images of a physical page on which
\* render_drawings failed.
AbortedByRenderFailure ==
    /\ pc \in {"error", "exit"}
    /\ result = NoResult
    /\ grp \in 1..Len(page_groupings)
    /\ pos \in 1..Len(page_group)
    /\ page_group[pos] \in DOMAIN doc_pages
    /\ doc_pages[page_group[pos]].vres.failed

\* C10: a render_drawings failure on a physical page is recovered: the page
\* contributes no vector image, its raster images are kept, the index
\* counter is not advanced by the failure, and the later pages and units are
\* still processed: the failure never ends the run, and the result has one
\* Page per planned unit.
C10_VectorFailureRecovered ==
    /\ ~AbortedByRenderFailure
    /\ Returned =>
          /\ Len(result.pages) = Len(page_groupings)
          /\ \A i \in 1..Len(result.pages) :
                LET u == page_groupings[i]
                    imgs == result.pages[i].images
                IN /\ \A k \in 1..Len(imgs) : imgs[k].index = k - 1
                   /\ CountType(imgs, "raster") = RastersOf(u, Len(u))
                   /\ CountType(imgs, "vector") <= VectorsOf(u, Len(u))
                   /\ (\A j \in 1..Len(u) : doc_pages[u[j]].vres.failed) =>
                         CountType(imgs, "vector") = 0


\* extract_pages_from_pdf returned and save_to_file wrote the whole record.
SaveCompleted == result # NoResult /\ results_path \in fs /\ err # "IOError"

\* The fatal errors of the run: the input file is missing, the range is
\* invalid, the document cannot be opened, a write fails.
FatalError ==
    \/ pdf_state = "missing"
    \/ RangeError
    \/ err \in {"DocumentOpenError", "IOError"}

\* C11: the process ends with exit code 0 exactly when the extraction and
\* the JSON save completed, and with exit code 1 on every fatal error (input
\* file missing, invalid range, document-open failure, write failure); a
\* recovered render_drawings failure leaves the exit code at 0.
C11_ExitCode ==
    /\ pc # "exit" => exit_code = NoExit
    /\ pc = "exit" =>
          /\ exit_code \in {0, 1}
          /\ exit_code = 0 <=> SaveCompleted
          /\ FatalError => exit_code = 1
          /\ (SaveCompleted /\ \E q \in DOMAIN doc_pages : doc_pages[q].vres.failed)
                => exit_code = 0


\* The files of a list of Image records, under output_dir.
ImageFiles(imgs) ==
    UNION {{path_join(output_dir, imgs[k].image_path),
            path_join(output_dir, imgs[k].chart_path)} : k \in 1..Len(imgs)}

\* The page images of the first n planned units, under output_dir.
PageFiles(n) ==
    {path_join(output_dir, path_join("pages", page_image_filename_of(page_groupings[i]))) :
        i \in 1..n}

\* Number of planned units whose page image has been rendered and written.
RenderedUnits == IF pc \in {"loop", "save"} THEN grp - 1 ELSE grp

\* C12: units are processed one at a time in ascending planner order: no
\* step of a later unit has happened while a unit is in progress; within a
\* unit the page image is rendered and written first, then the text is
\* aggregated, then the images are extracted; the Page records are in the
\* order of the planned units, one Page per unit.
C12_SequentialUnits ==
    pc \in {"loop", "text", "call_images", "images", "save"} =>
        /\ grp \in 1..(Len(page_groupings) + 1)
        /\ Len(pages) = grp - 1
        /\ \A i \in 1..Len(pages) :
              /\ pages[i].page_id = page_id_of(page_groupings[i])
              /\ pages[i].page_number = page_groupings[i][1]
        /\ extracted_page_numbers =
              Flatten(SubSeq(page_groupings, 1, RenderedUnits))
        /\ fs = {output_dir, pages_dir, images_dir}
                  \cup PageFiles(RenderedUnits)
                  \cup ImageFiles(AllImages(pages))
                  \cup (IF pc = "images" THEN ImageFiles(images) ELSE {})
        /\ pc \in {"call_images", "images"} =>
              page_text = concatenate_page_text(page_indices_of(page_group))
        /\ pc = "save" =>
              /\ grp = Len(page_groupings) + 1
              /\ result.pages = pages

C12_Witness ==
    /\ pc = "text"
    /\ grp = 2
    /\ page_groupings = << <<1>>, <<2, 3>> >>
    /\ Len(pages) = 1
    /\ Len(pages[1].images) = 2
    /\ path_join(pages_dir, "page_2_3.png") \in fs


\* Every path a PDFExtract refers to, relative to output_dir.
ReferencedPaths(r) ==
    {r.pages[i].page_image_path : i \in 1..Len(r.pages)}
        \cup {AllImages(r.pages)[k].image_path : k \in 1..Len(AllImages(r.pages))}
        \cup {AllImages(r.pages)[k].chart_path : k \in 1..Len(AllImages(r.pages))}

\* C13: pdf_extract.json is written last and only by a run that processed
\* every unit: when it is on disk, every page_image_path, image_path and
\* chart_path of the record is on disk under output_dir at that relative
\* path and no step of the extraction follows; a run that aborts on a fatal
\* error never writes it.
C13_JsonWrittenLast ==
    /\ results_path \in fs =>
          /\ pc \in {"error", "exit"}
          /\ result # NoResult
          /\ Len(result.pages) = Len(page_groupings)
          /\ \A p \in ReferencedPaths(result) : path_join(output_dir, p) \in fs
    /\ (pc = "save" /\ result # NoResult) =>
          \A p \in ReferencedPaths(result) : path_join(output_dir, p) \in fs
    /\ (err # "none" \/ exit_code = 1) => results_path \notin fs


\* C14: the document handle opened by extract_pages_from_pdf is released at
\* the end of the run: in every terminal state of the function (normal
\* return, or abort on a range error or a write failure after the document
\* was opened) the handle is closed.
C14_HandleReleased ==
    pc \in {"save", "error", "exit"} => ~doc_open


\* Sum of the widths of the first n pixmaps of the pages given.
RECURSIVE WidthBefore(_, _)
WidthBefore(ps, j) ==
    IF j <= 1 THEN 0 ELSE WidthBefore(ps, j - 1) + FITZ_ZOOM * ps[j - 1].width

C16_PageRecords ==
    Returned =>
        /\ Len(result.pages) = Len(page_groupings)
        /\ \A i \in 1..Len(result.pages) :
              LET u == page_groupings[i]
                  p == result.pages[i]
                  N == ToString(u[1])
              IN /\ p.page_number = u[1]
                 /\ Len(u) = 1 =>
                       /\ p.page_id = "p" \o N
                       /\ p.page_image_path = "pages/page_" \o N \o ".png"
                 /\ Len(u) = 2 =>
                       /\ p.page_id = "p" \o N \o "_" \o ToString(u[2])
                       /\ p.page_image_path =
                             "pages/page_" \o N \o "_" \o ToString(u[2]) \o ".png"
                 /\ \A k \in 1..Len(p.images) : p.images[k].page_id = p.page_id
        /\ \A i, j \in 1..Len(result.pages) :
              i # j =>
                 /\ result.pages[i].page_id # result.pages[j].page_id
                 /\ result.pages[i].page_image_path # result.pages[j].page_image_path

C16_Witness ==
    /\ Returned
    /\ Len(result.pages) = 2
    /\ result.pages[1].page_id = "p1"
    /\ result.pages[1].page_image_path = "pages/page_1.png"
    /\ result.pages[2].page_id = "p2_3"
    /\ result.pages[2].page_number = 2
    /\ result.pages[2].page_image_path = "pages/page_2_3.png"
    /\ Len(result.pages[2].images) >= 1


\* C17: an end_page above total_pages, or negative, is not rejected but
\* resolved to total_pages: for every accepted request Metadata.end_page <=
\* total_pages, and every 0-based page index given to the renderer, the text
\* aggregator and the image extraction lies in 0..total_pages-1.
C17_EndPageClamped ==
    /\ Validated =>
          /\ end_page <= total_pages
          /\ (req_end > total_pages \/ req_end < 0) =>
                /\ end_page = total_pages
                /\ req_start \in 0..total_pages => ~RangeError
    /\ (Planned /\ pc \in {"text", "call_images", "images"}) =>
          \A i \in 1..Len(page_group) :
              page_indices_of(page_group)[i] \in 0..(total_pages - 1)
    /\ Returned =>
          /\ result.pdf_metadata.end_page <= total_pages
          /\ \A q \in DOMAIN doc_pages : q - 1 \in 0..(total_pages - 1)
          /\ \A i \in 1..Len(result.pdf_metadata.extracted_pages) :
                result.pdf_metadata.extracted_pages[i] - 1 \in 0..(total_pages - 1)

C17_Witness ==
    /\ Returned
    /\ total_pages = 2
    /\ req_end = 3
    /\ req_start = 1
    /\ result.pdf_metadata.end_page = 2
    /\ DOMAIN doc_pages = {1, 2}


\* Most iterations the walk over start_page..end_page may take.
MaxIterations == IF end_page >= start_page THEN end_page - start_page + 1 ELSE 0

\* C18: the spread-mode walk of get_page_groupings always terminates: every
\* iteration moves the cursor forward by 1 or 2 and leaves it at most at
\* end_page + 1, the loop runs at most end_page - start_page + 1 times, and
\* the result is the empty list when start_page > end_page.
C18_WalkTerminates ==
    /\ [][(pc = "plan_loop" /\ pc' = "plan_loop") =>
             /\ current' - current \in {1, 2}
             /\ current' <= end_page + 1
             /\ Len(groupings') = Len(groupings) + 1]_vars
    /\ [](pc = "plan_loop" => Len(groupings) <= MaxIterations)
    /\ []((pc = "plan_done" /\ spread_mode /\ start_page > end_page) =>
             page_groupings = <<>>)
    /\ <>(pc = "plan_done")

C18_Witness ==
    /\ pc = "plan_done"
    /\ spread_mode
    /\ start_page = 2
    /\ end_page = 6
    /\ current = 7
    /\ Len(page_groupings) = 3

====
